---- MODULE Spec2Model ----
(***************************************************************************)
(* Fantasy Adventure Quest (src/game.py): the turn loop of AdventureGame   *)
(* (initialize_story, make_choice, get_next_scene, end_game,               *)
(* process_scene, add_to_history) driven by AdventureGameGUI               *)
(* (on_choice_clicked, process_choice, update_game_display, start_game,    *)
(* initialize_game, restart_game), with the chat-completion API as the     *)
(* environment: every API call either returns a text or raises.            *)
(***************************************************************************)
EXTENDS Integers, Sequences, FiniteSets, TLC

(* ----------------------------- constants ------------------------------ *)

MAX_STEPS == 5

MAX_RETRIES == 3

HISTORY_LIMIT == 10

HISTORY_TAIL == 9

NUM_BUTTONS == 3

INITIAL_HEALTH == 100

INITIAL_GOLD == 0

\* Worker threads that can exist at once (running, or finished with their
\* generation but not yet past "self.loading = False").
MaxThreads == 2

\* Length of an LLM reply, in chunks (see Tokens).
MaxChunks == 2

(* ------------------------------ values -------------------------------- *)

\* An optional value is a sequence of length 0 (absent) or 1 (present).
None == <<>>

Some(v) == <<v>>

\* str(choice_num), game.py lines 448 and 452.
Str(n) ==
  CASE n = 1 -> "1"
    [] n = 2 -> "2"
    [] n = 3 -> "3"
    [] OTHER -> "?"

EffectKeys == {"1", "2", "3"}

\* One value of a Scene's effects mapping. kind "absent": no such key;
\* "map": a JSON object, whose present fields are listed in has; "other": a
\* JSON value that is not an object.
AbsentEntry ==
  [kind |-> "absent", has |-> {}, health |-> 0, gold |-> 0, items |-> <<>>]

OtherEntry ==
  [kind |-> "other", has |-> {}, health |-> 0, gold |-> 0, items |-> <<>>]

MapEntry(has, dh, dg, its) ==
  [kind |-> "map", has |-> has, health |-> dh, gold |-> dg, items |-> its]

NoEntries == [k \in EffectKeys |-> AbsentEntry]

\* The text of a story: a message and, where the code formats them in,
\* the player's final stats.
Story(msg, stats) == [msg |-> msg, stats |-> stats]

\* A decoded JSON value (or None). type is the Python type; story, choices are
\* optional; effKind is "absent" (no key), "map", "list" (a non-mapping
\* container) or "scalar" (a value "in" cannot be applied to).
Value(type, story, choices, effKind, effects) ==
  [type |-> type, story |-> story, choices |-> choices,
   effKind |-> effKind, effects |-> effects]

NoneValue == Value("NoneType", None, None, "absent", NoEntries)

NumberValue == Value("int", None, None, "absent", NoEntries)

\* The Scenes the code itself builds: "choices": [], "effects": {}.
TerminalScene(story) == Value("dict", Some(story), Some(<<>>), "map", NoEntries)

\* PlayerState, and PlayerState.to_dict (game.py 34-51).
PlayerState ==
  [health |-> INITIAL_HEALTH, gold |-> INITIAL_GOLD, inventory |-> <<>>, step |-> 0]

to_dict(p) ==
  [health |-> p.health, gold |-> p.gold, inventory |-> p.inventory, step |-> p.step]

Stats(p) == [health |-> p.health, gold |-> p.gold, inventory |-> p.inventory]

(* --------------------- what the LLM can reply ------------------------- *)

LLMStory == Some(Story("llm", None))

FullEffect == MapEntry({"health", "gold", "items"}, -50, 5, <<"rope">>)

HealEffect == MapEntry({"health"}, 10, 0, <<>>)

\* JSON objects the LLM may send, decoded.
GoodScene ==
  Value("dict", LLMStory, Some(<<"a", "b">>), "map",
        [k \in EffectKeys |->
           IF k = "1" THEN FullEffect ELSE IF k = "2" THEN HealEffect ELSE AbsentEntry])

PartialScene ==
  Value("dict", LLMStory, Some(<<"a", "b", "c">>), "map",
        [k \in EffectKeys |->
           IF k = "1" THEN OtherEntry ELSE AbsentEntry])

NoEffectsScene == Value("dict", LLMStory, Some(<<"a">>), "absent", NoEntries)

ListEffectsScene == Value("dict", LLMStory, Some(<<"a">>), "list", NoEntries)

ScalarEffectsScene == Value("dict", LLMStory, Some(<<"a">>), "scalar", NoEntries)

LLMEndScene == Value("dict", LLMStory, Some(<<>>), "map", NoEntries)

EmptyObject == Value("dict", None, None, "absent", NoEntries)

LLMObjects ==
  {GoodScene, PartialScene, NoEffectsScene, ListEffectsScene, ScalarEffectsScene,
   LLMEndScene, EmptyObject}

\* A reply is a sequence of chunks: "p" prose, "f" a markdown fence
\* (```json or ```), "o" a JSON object literal {...}, "x" a {...} span that
\* is not valid JSON, "n" a JSON literal that is no object (42).
Tokens == {"p", "f", "o", "x", "n"}

SeqsUpTo(S, n) == UNION {[1..k -> S] : k \in 1..n}

\* The texts the API may return.
Texts == SeqsUpTo(Tokens, MaxChunks)

(* ------------------------- pure functions ----------------------------- *)

\* content.replace('```json', '').replace('```', '').strip(), game.py 422.
strip_fences(toks) == SelectSeq(toks, LAMBDA c : c # "f")

Braced(c) == c \in {"o", "x"}

\* extract_json (game.py 25-32): the span from the first "{" to the last "}",
\* or the text itself when there is none.
extract_json(toks) ==
  LET idx == {i \in 1..Len(toks) : Braced(toks[i])}
  IN IF idx = {} THEN toks
     ELSE LET lo == CHOOSE i \in idx : \A j \in idx : i <= j
              hi == CHOOSE i \in idx : \A j \in idx : j <= i
          IN SubSeq(toks, lo, hi)

\* json.loads succeeds on exactly one JSON literal.
Decodes(toks) == Len(toks) = 1 /\ toks[1] \in {"o", "n"}

json_loads(toks, obj) == IF toks[1] = "o" THEN obj ELSE NumberValue

\* What the "try: json.loads" of process_scene (game.py 516-519) makes of a
\* content whose object chunks spell obj: the value, or None for a
\* JSONDecodeError.
Decoded(content, obj) ==
  IF Decodes(content) THEN Some(json_loads(content, obj)) ELSE None

\* The first reply of get_next_scene has its fences removed before the
\* extraction (game.py 420-424).
FirstReplies ==
  {Decoded(extract_json(strip_fences(text)), obj) : text \in Texts, obj \in LLMObjects}

\* The reply of end_game (game.py 497-498) and of a retry (527-528) has not.
LaterReplies ==
  {Decoded(extract_json(text), obj) : text \in Texts, obj \in LLMObjects}

(* --------------------------- the engine ------------------------------- *)

\* One entry of conversation_history: {"role": ..., "content": ...}. The
\* content is its fixed text, the Scene it dumps and the player state it
\* formats in (the last two optional).
Message(role, text, scene, state) ==
  [role |-> role, text |-> text, scene |-> scene, state |-> state]

\* The system prompt with the formatted player state (game.py 402-406).
SystemMessage(p) == Message("system", "system_prompt", None, Some(to_dict(p)))

StartMessage == Message("user", "Start the adventure!", None, None)

\* json.dumps(scene), recorded as the assistant's message (game.py 470).
SceneMessage(scene) == Message("assistant", "scene", Some(scene), None)

\* "Choice made: ...\nNew player state: ..." (game.py 472).
ChoiceMessage(choice_text, p) == Message("user", choice_text, None, Some(to_dict(p)))

\* An add_to_history that keeps the last entries only.
add_to_history_KeepLast(h, m) ==
  LET a == Append(h, m)
  IN IF Len(a) > HISTORY_LIMIT
       THEN SubSeq(a, Len(a) - HISTORY_LIMIT + 1, Len(a))
       ELSE a

\* add_to_history (game.py 394-399).
add_to_history(h, m) ==
  LET a == Append(h, m)
  IN IF Len(a) > HISTORY_LIMIT
       THEN <<a[1]>> \o SubSeq(a, Len(a) - HISTORY_TAIL + 1, Len(a))
       ELSE a

\* end_game with a game_over_message (game.py 477-489).
end_game(p, msg) == TerminalScene(Story(msg, Some(Stats(p))))

\* end_game's own text when the ending request raises (game.py 500-512).
LocalEnding(p) == TerminalScene(Story("Your adventure comes to an end...", Some(Stats(p))))

\* process_scene's text after the retries (game.py 531-551): a plain string
\* literal, nothing is formatted into it.
FallbackScene == TerminalScene(Story("EMERGENCY STORY CONCLUSION PROTOCOL ACTIVATED!", None))

\* A make_choice that lets one more choice through at the limit.
ChoiceAtLimit_OffByOne(step) == step > MAX_STEPS

\* A make_choice without the check of the limit.
ChoiceAtLimit_Never(step) == FALSE

\* "self.player.step >= self.MAX_STEPS" in make_choice (game.py 432).
ChoiceAtLimit(step) == step >= MAX_STEPS

\* "self.player.step >= self.MAX_STEPS" in get_next_scene (game.py 412).
SceneAtLimit(step) == step >= MAX_STEPS

\* A process_scene that retries once more.
CanRetry_OffByOne(retries) == retries <= MAX_RETRIES

\* "retries < MAX_RETRIES" (game.py 520).
CanRetry(retries) == retries < MAX_RETRIES

\* A make_choice that takes a missing effects entry for an empty effect.
Lookup_Lenient(scene, n) ==
  IF scene.type # "dict" THEN "KeyError"
  ELSE IF scene.effKind = "absent" THEN "KeyError"
  ELSE IF scene.effKind = "scalar" THEN "TypeError"
  ELSE IF scene.effKind = "list" THEN "KeyError"
  ELSE IF scene.effects[Str(n)].kind = "other" THEN "AttributeError"
  ELSE "ok"

\* The validation of make_choice (game.py 438-461) and the first use of the
\* effect (464): "ok", the KeyError the code raises and catches, or the
\* exception that escapes make_choice.
Lookup(scene, n) ==
  IF scene.type # "dict" THEN "KeyError"
  ELSE IF scene.effKind = "absent" THEN "KeyError"
  ELSE IF scene.effKind = "scalar" THEN "TypeError"
  ELSE IF scene.effKind = "list" THEN "KeyError"
  ELSE IF scene.effects[Str(n)].kind = "absent" THEN "KeyError"
  ELSE IF scene.effects[Str(n)].kind = "other" THEN "AttributeError"
  ELSE "ok"

\* effects.get(field, default) (game.py 464-466).
GetHealth(e) == IF "health" \in e.has THEN e.health ELSE 0

GetGold(e) == IF "gold" \in e.has THEN e.gold ELSE 0

GetItems(e) == IF "items" \in e.has THEN e.items ELSE <<>>

\* A make_choice that keeps health from going below 0.
ApplyEffects_Clamped(p, e) ==
  [health |-> IF p.health + GetHealth(e) < 0 THEN 0 ELSE p.health + GetHealth(e),
   gold |-> p.gold + GetGold(e),
   inventory |-> p.inventory \o GetItems(e),
   step |-> p.step + 1]

\* A make_choice that replaces the inventory by the effect's items.
ApplyEffects_Replace(p, e) ==
  [health |-> p.health + GetHealth(e),
   gold |-> p.gold + GetGold(e),
   inventory |-> GetItems(e),
   step |-> p.step + 1]

\* A make_choice that adds no item the inventory already has.
ApplyEffects_UniqueItems(p, e) ==
  [health |-> p.health + GetHealth(e),
   gold |-> p.gold + GetGold(e),
   inventory |-> p.inventory \o
                   SelectSeq(GetItems(e),
                             LAMBDA x : \A k \in 1..Len(p.inventory) : p.inventory[k] # x),
   step |-> p.step + 1]

\* "Update player state" (game.py 463-467).
ApplyEffects(p, e) ==
  [health |-> p.health + GetHealth(e),
   gold |-> p.gold + GetGold(e),
   inventory |-> p.inventory \o GetItems(e),
   step |-> p.step + 1]

\* scene["choices"][choice_num - 1] (game.py 471) is defined.
HasChoice(scene, n) ==
  /\ scene.choices # None
  /\ n >= 1
  /\ n <= Len(scene.choices[1])

\* A make_choice that records the player's choice before the Scene.
record_choice_ChoiceFirst(h, scene, n, p) ==
  add_to_history(add_to_history(h, ChoiceMessage(scene.choices[1][n], p)),
                 SceneMessage(scene))

\* "Add the current scene and player's choice to the conversation history"
\* (game.py 469-472), p being the player after the effect.
record_choice(h, scene, n, p) ==
  add_to_history(add_to_history(h, SceneMessage(scene)),
                 ChoiceMessage(scene.choices[1][n], p))

\* A process_choice that lets the player live at health 0.
IsDead_Strict(health) == health < 0

\* "self.game.player.health <= 0" in process_choice (game.py 306).
IsDead(health) == health <= 0

(* ----------------------------- the state ------------------------------ *)

VARIABLES
  player,                \* AdventureGame.player
  conversation_history,  \* AdventureGame.conversation_history
  current_scene,         \* AdventureGameGUI.current_scene
  loading,               \* AdventureGameGUI.loading
  choice_buttons,        \* the state of each of the three choice buttons
  buttons_packed,        \* the choice buttons are packed (visible)
  restart_packed,        \* the restart button is packed (visible) and normal
  pending,               \* update_game_display callbacks root.after has queued
  threads,               \* the worker threads that have not yet queued their display update
  clearing,              \* the worker threads that have, and have "self.loading = False" left to run
  ret,                   \* how the last engine call (initialize_story, make_choice) ended
  log                    \* every message recorded since the history was created

vars ==
  <<player, conversation_history, current_scene, loading, choice_buttons,
    buttons_packed, restart_packed, pending, threads, clearing, ret, log>>

engine == <<player, conversation_history, log>>

buttons == <<choice_buttons, buttons_packed, restart_packed>>

ThreadIds == 1..MaxThreads

\* A worker thread. pc: "none" (no thread), "start" (started, target not yet
\* run), "api" (blocked in client.chat.completions.create). op: the target,
\* "init" (initialize_game) or "choice" (process_choice, with arg). ctx: the
\* try block the pending API call was made under, "next" (get_next_scene) or
\* "ending" (end_game). retries: process_scene's parameter for the pending
\* reply. scene: scene_copy, the Scene process_choice passes to make_choice.
\* calls, fails: API calls made and undecodable replies received in this
\* generation. raised: an API call of it raised. accepted: make_choice
\* applied the effect. before: the player when the engine call began. sent:
\* for each API call of this generation, the messages it sent and the player
\* at that moment.
NoThread ==
  [pc |-> "none", op |-> "-", arg |-> 0, scene |-> None, ctx |-> "-", retries |-> 0,
   calls |-> 0, fails |-> 0, raised |-> FALSE, accepted |-> FALSE,
   before |-> PlayerState, sent |-> <<>>]

\* client.chat.completions.create(messages=self.conversation_history, ...)
\* (game.py 416-419, 493-496, 523-526).
Sent(h, p) == [messages |-> h, player |-> p]

Started(op, arg) == [NoThread EXCEPT !.pc = "start", !.op = op, !.arg = arg]

\* The end of an engine call: the operation and its arguments, "returned"
\* with a Scene or "raised", the thread's counters and requests, the player
\* before the call and after it (with the health and step after it).
Outcome(t, outcome, scene, p) ==
  [op |-> t.op, arg |-> t.arg, prior |-> t.scene, outcome |-> outcome, scene |-> scene,
   accepted |-> t.accepted, ctx |-> t.ctx, calls |-> t.calls, fails |-> t.fails,
   raised |-> t.raised, health |-> p.health, step |-> p.step,
   before |-> t.before, after |-> p, sent |-> t.sent]

NoReturn ==
  [Outcome(NoThread, "-", None, PlayerState) EXCEPT !.health = 0]

AllDisabled == [b \in 1..NUM_BUTTONS |-> "disabled"]

\* The slots a new thread can take: MaxThreads bounds the threads alive.
FreeIds ==
  IF Cardinality({i \in ThreadIds : threads[i].pc # "none"}) + clearing < MaxThreads
    THEN {i \in ThreadIds : threads[i].pc = "none"}
    ELSE {}

FirstFree == CHOOSE i \in FreeIds : \A j \in FreeIds : i <= j

\* AdventureGameGUI.__init__ (game.py 91-117): the engine is built, the
\* buttons are disabled, the restart button hidden, and start_game has set
\* loading and started the first worker.
Init ==
  /\ player = PlayerState
  /\ conversation_history = <<>>
  /\ current_scene = NoneValue
  /\ loading = TRUE
  /\ choice_buttons = AllDisabled
  /\ buttons_packed = TRUE
  /\ restart_packed = FALSE
  /\ pending = 0
  /\ threads = [i \in ThreadIds |-> IF i = 1 THEN Started("init", 0) ELSE NoThread]
  /\ clearing = 0
  /\ ret = NoReturn
  /\ log = <<>>

(* ------------------------- the worker threads ------------------------- *)

\* The engine call of thread i returned `result` with the player being p:
\* the rest of process_choice (game.py 304-309) or initialize_game (350-351),
\* up to the queued display update.
Return(i, p, result, t) ==
  /\ current_scene' =
       IF t.op = "choice" /\ IsDead(p.health)
         THEN end_game(p, "You have perished in your quest!")
         ELSE result
  /\ pending' = pending + 1
  /\ threads' = [threads EXCEPT ![i] = NoThread]
  /\ clearing' = clearing + 1
  /\ ret' = Outcome(t, "returned", Some(result), p)

\* The engine call of thread i raised: the thread ends there, with loading
\* still set and no display update queued.
Raise(i, p, t) ==
  /\ threads' = [threads EXCEPT ![i] = NoThread]
  /\ ret' = Outcome(t, "raised", None, p)
  /\ UNCHANGED <<current_scene, pending, clearing>>

\* get_next_scene up to its API call (game.py 410-419), or end_game() up
\* to its own (412-413, 491-496): thread i blocks in the call.
Request(i, p, h, t) ==
  /\ threads' =
       [threads EXCEPT ![i] =
          [t EXCEPT !.pc = "api",
                    !.ctx = IF SceneAtLimit(p.step) THEN "ending" ELSE "next",
                    !.retries = 0, !.calls = 1, !.fails = 0,
                    !.sent = <<Sent(h, p)>>]]
  /\ UNCHANGED <<current_scene, pending, clearing, ret>>

\* initialize_game -> initialize_story (game.py 349-350, 401-408).
InitializeGame(i) ==
  LET h == add_to_history(add_to_history(conversation_history, SystemMessage(player)),
                          StartMessage)
  IN
  /\ threads[i].pc = "start"
  /\ threads[i].op = "init"
  /\ conversation_history' = h
  /\ log' = log \o <<SystemMessage(player), StartMessage>>
  /\ Request(i, player, h, [threads[i] EXCEPT !.before = player])
  /\ UNCHANGED <<player, loading, buttons>>

\* process_choice -> make_choice (game.py 301-304, 430-474), up to the API
\* call of get_next_scene or to its return.
ProcessChoice(i) ==
  LET n == threads[i].arg
      scene == current_scene
      t == [threads[i] EXCEPT !.scene = Some(scene), !.before = player]
      e == scene.effects[Str(n)]
      p == ApplyEffects(player, e)
      t2 == [t EXCEPT !.accepted = TRUE]
      h == record_choice(conversation_history, scene, n, p)
  IN
  /\ threads[i].pc = "start"
  /\ threads[i].op = "choice"
  /\ IF ChoiceAtLimit(player.step)
       THEN /\ Return(i, player, end_game(player, "Your epic journey has reached its conclusion..."), t)
            /\ UNCHANGED engine
     ELSE IF Lookup(scene, n) = "KeyError"
       THEN /\ Return(i, player, end_game(player, "A mysterious force disrupts your adventure..."), t)
            /\ UNCHANGED engine
     ELSE IF Lookup(scene, n) # "ok"
       THEN /\ Raise(i, player, t)
            /\ UNCHANGED engine
     ELSE IF ~HasChoice(scene, n)
       THEN /\ player' = p
            /\ conversation_history' = add_to_history(conversation_history, SceneMessage(scene))
            /\ log' = Append(log, SceneMessage(scene))
            /\ Raise(i, p, t2)
     ELSE /\ player' = p
          /\ conversation_history' = h
          /\ log' = log \o <<SceneMessage(scene), ChoiceMessage(scene.choices[1][n], p)>>
          /\ Request(i, p, h, t2)
  /\ UNCHANGED <<loading, buttons>>

\* What the pending API call of thread t can come back as, decoded.
Replies(t) == IF t.ctx = "next" /\ t.retries = 0 THEN FirstReplies ELSE LaterReplies

\* A process_scene that tells the LLM about its mistake before it retries.
ApiReturn_Corrective(i, parsed) ==
  LET t == threads[i]
      failed == [t EXCEPT !.fails = @ + 1]
      m == Message("user", "That was not valid JSON.", None, None)
      h == add_to_history(conversation_history, m)
  IN
  /\ t.pc = "api"
  /\ IF parsed # None
       THEN Return(i, player, parsed[1], t) /\ UNCHANGED engine
     ELSE IF CanRetry(t.retries)
       THEN /\ conversation_history' = h
            /\ log' = Append(log, m)
            /\ threads' = [threads EXCEPT ![i] =
                             [failed EXCEPT !.retries = @ + 1, !.calls = @ + 1,
                                            !.sent = Append(@, Sent(h, player))]]
            /\ UNCHANGED <<player, current_scene, pending, clearing, ret>>
     ELSE Return(i, player, FallbackScene, failed) /\ UNCHANGED engine
  /\ UNCHANGED <<loading, buttons>>

\* The API call of thread i returns a text that decodes as `parsed`:
\* process_scene (game.py 514-551).
ApiReturn(i, parsed) ==
  LET t == threads[i]
      failed == [t EXCEPT !.fails = @ + 1]
  IN
  /\ t.pc = "api"
  /\ IF parsed # None
       THEN Return(i, player, parsed[1], t)
     ELSE IF CanRetry(t.retries)
       THEN /\ threads' = [threads EXCEPT ![i] =
                             [failed EXCEPT !.retries = @ + 1, !.calls = @ + 1,
                                            !.sent = Append(@, Sent(conversation_history, player))]]
            /\ UNCHANGED <<current_scene, pending, clearing, ret>>
     ELSE Return(i, player, FallbackScene, failed)
  /\ UNCHANGED <<engine, loading, buttons>>

\* An except clause that retries the call as a decode failure is retried.
ApiRaise_Retry(i) ==
  LET t == [threads[i] EXCEPT !.raised = TRUE]
  IN
  /\ threads[i].pc = "api"
  /\ IF CanRetry(t.retries)
       THEN /\ threads' = [threads EXCEPT ![i] =
                             [t EXCEPT !.retries = @ + 1, !.calls = @ + 1,
                                       !.sent = Append(@, Sent(conversation_history, player))]]
            /\ UNCHANGED <<current_scene, pending, clearing, ret>>
       ELSE Return(i, player,
                   end_game(player, "An unexpected error occurred. The adventure ends here."),
                   t)
  /\ UNCHANGED <<engine, loading, buttons>>

\* The API call of thread i raises: the except clause of get_next_scene
\* (game.py 426-428) or of end_game (500-512).
ApiRaise(i) ==
  LET t == [threads[i] EXCEPT !.raised = TRUE]
  IN
  /\ threads[i].pc = "api"
  /\ IF t.ctx = "next"
       THEN Return(i, player,
                   end_game(player, "An unexpected error occurred. The adventure ends here."),
                   t)
       ELSE Return(i, player, LocalEnding(player), t)
  /\ UNCHANGED <<engine, loading, buttons>>

\* "self.loading = False", the last statement of the worker (game.py 310, 352).
ClearLoading ==
  /\ clearing > 0
  /\ clearing' = clearing - 1
  /\ loading' = FALSE
  /\ UNCHANGED <<engine, current_scene, buttons, pending, threads, ret>>

(* --------------------------- the UI thread ---------------------------- *)

\* An on_choice_clicked that leaves the buttons enabled.
OnChoiceClicked_KeepEnabled(n) ==
  /\ buttons_packed
  /\ IF choice_buttons[n] # "normal"
       THEN UNCHANGED vars
     ELSE IF loading
       THEN UNCHANGED vars
       ELSE /\ FreeIds # {}
            /\ loading' = TRUE
            /\ threads' = [threads EXCEPT ![FirstFree] = Started("choice", n)]
            /\ UNCHANGED <<engine, current_scene, buttons, pending, clearing, ret>>

\* A click on the visible choice button n. Tk drops the click on a button
\* whose state is "disabled"; otherwise on_choice_clicked runs (game.py
\* 293-299).
OnChoiceClicked(n) ==
  /\ buttons_packed
  /\ IF choice_buttons[n] # "normal"
       THEN UNCHANGED vars
     ELSE IF loading
       THEN UNCHANGED vars
       ELSE /\ FreeIds # {}
            /\ loading' = TRUE
            /\ choice_buttons' = AllDisabled
            /\ threads' = [threads EXCEPT ![FirstFree] = Started("choice", n)]
            /\ UNCHANGED <<engine, current_scene, buttons_packed, restart_packed,
                           pending, clearing, ret>>

\* An update_game_display that enables every choice button and leaves the
\* buttons on screen when it shows the restart button.
UpdateGameDisplay_AllNormal ==
  LET choices == IF current_scene.choices = None THEN <<>> ELSE current_scene.choices[1]
  IN
  /\ pending > 0
  /\ pending' = pending - 1
  /\ IF current_scene.type # "dict"
       THEN UNCHANGED buttons
       ELSE /\ choice_buttons' = [b \in 1..NUM_BUTTONS |-> "normal"]
            /\ IF choices = <<>>
                 THEN restart_packed' = TRUE /\ UNCHANGED buttons_packed
                 ELSE UNCHANGED <<buttons_packed, restart_packed>>
  /\ UNCHANGED <<engine, current_scene, loading, threads, clearing, ret>>

\* update_game_display (game.py 316-343), run by the main loop for a queued
\* callback. current_scene.get raises on a value that is no dict, which ends
\* the callback; a dict without "choices" counts as having none.
UpdateGameDisplay ==
  LET choices == IF current_scene.choices = None THEN <<>> ELSE current_scene.choices[1]
  IN
  /\ pending > 0
  /\ pending' = pending - 1
  /\ IF current_scene.type # "dict"
       THEN UNCHANGED buttons
       ELSE /\ choice_buttons' =
                 [b \in 1..NUM_BUTTONS |->
                    IF b <= Len(choices) THEN "normal" ELSE "disabled"]
            /\ IF choices = <<>>
                 THEN buttons_packed' = FALSE /\ restart_packed' = TRUE
                 ELSE UNCHANGED <<buttons_packed, restart_packed>>
  /\ UNCHANGED <<engine, current_scene, loading, threads, clearing, ret>>

\* A restart_game that keeps the conversation history of the session before.
RestartGame_KeepHistory ==
  /\ restart_packed
  /\ FreeIds # {}
  /\ player' = PlayerState
  /\ restart_packed' = FALSE
  /\ buttons_packed' = TRUE
  /\ loading' = TRUE
  /\ threads' = [threads EXCEPT ![FirstFree] = Started("init", 0)]
  /\ UNCHANGED <<conversation_history, log, current_scene, choice_buttons,
                 pending, clearing, ret>>

\* restart_game -> start_game (game.py 345-347, 354-363).
RestartGame ==
  /\ restart_packed
  /\ FreeIds # {}
  /\ player' = PlayerState
  /\ conversation_history' = <<>>
  /\ log' = <<>>
  /\ restart_packed' = FALSE
  /\ buttons_packed' = TRUE
  /\ loading' = TRUE
  /\ threads' = [threads EXCEPT ![FirstFree] = Started("init", 0)]
  /\ UNCHANGED <<current_scene, choice_buttons, pending, clearing, ret>>

Next ==
  \/ \E i \in ThreadIds : InitializeGame(i)
  \/ \E i \in ThreadIds : ProcessChoice(i)
  \/ \E i \in ThreadIds : \E parsed \in Replies(threads[i]) : ApiReturn(i, parsed)
  \/ \E i \in ThreadIds : ApiRaise(i)
  \/ ClearLoading
  \/ \E n \in 1..NUM_BUTTONS : OnChoiceClicked(n)
  \/ UpdateGameDisplay
  \/ RestartGame

Spec == Init /\ [][Next]_vars

(* ------------------------------ claims -------------------------------- *)

IsTerminal(scene) == scene.type = "dict" /\ scene.choices = Some(<<>>)

OffersChoices(scene) ==
  scene.type = "dict" /\ scene.choices # None /\ scene.choices # Some(<<>>)

Renderable(scene) == scene.type = "dict" /\ scene.story # None /\ scene.choices # None

\* C1 (as stated): when make_choice has returned from the accepted choice
\* that brought player.step to MAX_STEPS, the Scene it returned offers no
\* choices, whatever the LLM sent for the ending request. (Stated for a
\* player who is still alive, so that the Scene returned is also the Scene
\* displayed.)
C1_FinalSceneTerminal ==
  (/\ ret.op = "choice"
   /\ ret.outcome = "returned"
   /\ ret.accepted
   /\ ret.step = MAX_STEPS
   /\ ret.health > 0)
    => /\ ~OffersChoices(ret.scene[1])
       /\ ~OffersChoices(current_scene)

\* C2: in every reachable state 0 <= player.step <= MAX_STEPS.
C2_StepInRange == player.step >= 0 /\ player.step <= 5

\* C2's case: make_choice was called with the step counter at the limit
\* and returned without accepting the choice.
C2_Witness ==
  /\ player.step = 5
  /\ ret.op = "choice"
  /\ ret.outcome = "returned"
  /\ ~ret.accepted
  /\ ret.step = 5

\* C3: when make_choice has applied an effect and left health <= 0, the
\* Scene handed to the display is the terminal death Scene, whatever
\* make_choice returned and however many steps remain.
C3_DeathIsTerminal ==
  (ret.op = "choice" /\ ret.outcome = "returned" /\ ret.accepted /\ ret.health <= 0)
    => /\ IsTerminal(current_scene)
       /\ current_scene.story[1].msg = "You have perished in your quest!"

\* C3's case: the effect left health at 0 or below with steps remaining,
\* the generator returned a Scene with choices, and the display got another.
C3_Witness ==
  /\ ret.op = "choice"
  /\ ret.outcome = "returned"
  /\ ret.accepted
  /\ ret.health <= 0
  /\ ret.step < 5
  /\ ret.scene[1].type = "dict"
  /\ ret.scene[1].choices # None
  /\ ret.scene[1].choices # Some(<<>>)
  /\ current_scene # ret.scene[1]

\* C4: a generation never makes a fifth API call, and one that received 4
\* undecodable replies made exactly 4 calls and returned the fixed fallback
\* Scene (no choices, no effects) without raising.
C4_FourAttemptsThenFallback ==
  /\ \A i \in ThreadIds :
       threads[i].pc = "api" => threads[i].calls <= 4 /\ threads[i].fails < 4
  /\ ret.fails >= 4 =>
       /\ ret.outcome = "returned"
       /\ ret.calls = 4
       /\ ret.fails = 4
       /\ ret.scene = Some(TerminalScene(Story("EMERGENCY STORY CONCLUSION PROTOCOL ACTIVATED!", None)))

\* C4's case: a generation has ended after 4 undecodable replies.
C4_Witness == ret.fails = 4 /\ ret.outcome = "returned"

\* Thread i runs make_choice in this step, from its start.
MakesChoice(i) ==
  /\ threads[i].pc = "start"
  /\ threads[i].op = "choice"
  /\ threads'[i].pc # "start"

\* C5: make_choice called below the step limit with a mapping whose effects
\* has no entry for str(index), or that has no effects key, returns a
\* terminal Scene and leaves the player (health, gold, inventory, step) and
\* the conversation history as they were.
C5_MissingEffectKeepsState ==
  [][\A i \in ThreadIds :
       (/\ MakesChoice(i)
        /\ player.step < 5
        /\ current_scene.type = "dict"
        /\ \/ current_scene.effKind = "absent"
           \/ /\ current_scene.effKind = "map"
              /\ current_scene.effects[Str(threads[i].arg)].kind = "absent")
       => /\ player' = player
          /\ conversation_history' = conversation_history
          /\ ret'.outcome = "returned"
          /\ ret'.op = "choice"
          /\ IsTerminal(ret'.scene[1])
          /\ IsTerminal(current_scene')]_vars

\* C5's case: make_choice has returned a terminal Scene for a Scene whose
\* effects mapping lacks the entry of the chosen index, below the limit.
C5_Witness ==
  /\ ret.op = "choice"
  /\ ret.outcome = "returned"
  /\ ~ret.accepted
  /\ ret.step > 0
  /\ ret.step < 5
  /\ ret.prior[1].type = "dict"
  /\ ret.prior[1].effKind = "map"
  /\ ret.prior[1].effects[Str(ret.arg)].kind = "absent"
  /\ IsTerminal(ret.scene[1])
  /\ player.step = ret.step

\* C6: an accepted choice (step below the limit, effects entry a mapping)
\* adds the effect's health and gold (0 when the field is missing) to the
\* player's, appends its items (none when missing) to the inventory in
\* order and adds 1 to step; health is not clamped.
C6_EffectApplied ==
  [][\A i \in ThreadIds :
       (/\ MakesChoice(i)
        /\ player.step < 5
        /\ current_scene.type = "dict"
        /\ current_scene.effKind = "map"
        /\ current_scene.effects[Str(threads[i].arg)].kind = "map")
       => LET e == current_scene.effects[Str(threads[i].arg)]
          IN /\ player'.health =
                  player.health + (IF "health" \in e.has THEN e.health ELSE 0)
             /\ player'.gold = player.gold + (IF "gold" \in e.has THEN e.gold ELSE 0)
             /\ player'.inventory =
                  player.inventory \o (IF "items" \in e.has THEN e.items ELSE <<>>)
             /\ player'.step = player.step + 1]_vars

\* C6's case: accepted choices, one of them with fields missing, have taken
\* health below 0 and put items in the inventory.
C6_Witness ==
  /\ ret.op = "choice"
  /\ ret.accepted
  /\ player.health < 0
  /\ player.health = ret.health
  /\ player.health % 50 # 0
  /\ Len(player.inventory) > 1
  /\ player.step = ret.step

\* C7: the conversation history never has more than 10 entries, and once
\* more than 10 messages have been recorded since it was created it has
\* exactly 10: the first recorded message, which is the system prompt, then
\* the 9 most recently recorded messages in order.
C7_HistoryWindow ==
  /\ Len(conversation_history) <= 10
  /\ Len(log) > 10 =>
       /\ Len(conversation_history) = 10
       /\ conversation_history[1] = log[1]
       /\ log[1].role = "system"
       /\ \A k \in 1..9 : conversation_history[k + 1] = log[Len(log) - 9 + k]

\* C7's case: 12 messages have been recorded in this session.
C7_Witness == Len(log) = 12 /\ Len(conversation_history) = 10

\* C8 (as stated): every initialize_story and make_choice call ends by
\* returning a renderable Scene, a mapping with story and choices; none
\* raises.
C8_AlwaysRenderable ==
  ret.op # "-" => ret.outcome = "returned" /\ Renderable(ret.scene[1])

\* C9: no generation goes on after one of its API calls raised: it has made
\* no call but the ones before the raising one (one per undecodable reply,
\* plus the first) and has returned a terminal Scene, with the generic
\* failure message when the call was get_next_scene's or a retry under it
\* (with end_game's own closing text when it was the ending request's).
C9_TransportErrorNotRetried ==
  /\ \A i \in ThreadIds : ~threads[i].raised
  /\ ret.raised =>
       /\ ret.outcome = "returned"
       /\ ret.calls = ret.fails + 1
       /\ IsTerminal(ret.scene[1])
       /\ ret.ctx = "next" =>
            ret.scene[1].story[1].msg = "An unexpected error occurred. The adventure ends here."
       /\ ret.ctx = "ending" =>
            ret.scene[1].story[1].msg = "Your adventure comes to an end..."

\* C9's case: a retry call made after an undecodable reply has raised
\* under get_next_scene.
C9_Witness == ret.raised /\ ret.fails > 0 /\ ret.ctx = "next"

\* C10 (as stated): a Scene a generation returns from the LLM's reply has
\* the Scene shape: a mapping with story, choices and an effects mapping.
C10_ShapelessNeverReturned ==
  (ret.outcome = "returned" /\ ret.calls > 0)
    => /\ Renderable(ret.scene[1])
       /\ ret.scene[1].effKind = "map"

\* The chosen entry of the prior Scene's effects is no Effect mapping:
\* effects is a list or a scalar, or effects[str(index)] is there and is
\* not a mapping.
IllFormedEffects(scene, n) ==
  /\ scene.type = "dict"
  /\ \/ scene.effKind \in {"list", "scalar"}
     \/ scene.effKind = "map" /\ scene.effects[Str(n)].kind = "other"

\* C11 (as stated): a make_choice call on a prior Scene whose chosen effect
\* is ill-formed ends by returning a terminal Scene, and has left the
\* player as it was.
C11_IllFormedEffectsEndGame ==
  (ret.op = "choice" /\ IllFormedEffects(ret.prior[1], ret.arg))
    => /\ ret.outcome = "returned"
       /\ IsTerminal(ret.scene[1])
       /\ ret.after = ret.before

Active(i) == threads[i].pc # "none"

InFlight == {i \in ThreadIds : Active(i)}

\* C12: at most one generation is in flight, and no step taken while one
\* is in flight, a click on a choice button included, starts a worker or
\* leaves a click behind: a click in such a state changes nothing.
C12_SingleFlight ==
  /\ [](Cardinality(InFlight) <= 1)
  /\ [][InFlight # {} =>
          /\ \A j \in ThreadIds : ~Active(j) => ~Active(j)'
          /\ \A n \in 1..NUM_BUTTONS : OnChoiceClicked(n) => UNCHANGED vars]_vars

\* C12's case: a generation is in flight, the choice buttons are on
\* screen for a click to arrive, and a worker that finished earlier has
\* already set loading to False.
C12_Witness == InFlight # {} /\ buttons_packed /\ ~loading

\* Every API call has come back, every worker has finished and every
\* queued display callback has run.
Quiescent == InFlight = {} /\ clearing = 0 /\ pending = 0

\* The player can select an offered choice and the click starts a turn.
CanChoose ==
  /\ buttons_packed
  /\ ~loading
  /\ \E n \in 1..NUM_BUTTONS : choice_buttons[n] = "normal"

\* C13 (as stated, in the form a finite run refutes): a session does not
\* come to rest before its terminal Scene is on display. When every API
\* call has come back and nothing is left to run, either the session has
\* displayed a terminal Scene (the restart button is up) or the player can
\* go on selecting an offered choice.
C13_SessionReachesEnd ==
  Quiescent => restart_packed \/ CanChoose

\* s is an initial segment of t.
IsPrefix(s, t) == Len(s) <= Len(t) /\ SubSeq(t, 1, Len(s)) = s

\* C14: within a session the inventory only grows at its end: on every
\* step but a restart, the inventory before is a prefix of the inventory
\* after.
C14_InventoryAppendOnly ==
  [][RestartGame \/ IsPrefix(player.inventory, player.inventory')]_vars

\* C14's case: items were appended by two choices of one session, with a
\* choice that adds none after them.
C14_Witness ==
  /\ Len(player.inventory) = 2
  /\ ret.op = "choice"
  /\ ret.accepted
  /\ ret.before.inventory = player.inventory

\* C15: make_choice has no protection against a repeated submission. When
\* the call before, made on an equal prior Scene with the same index at a
\* step of at most MAX_STEPS - 2, was accepted, and nothing has changed the
\* player since, the call applies the same effect again: health and gold
\* have changed by twice the delta, the items are appended twice and step
\* has grown by 2 since the first call began.
C15_NoDuplicateProtection ==
  [][\A i \in ThreadIds :
       (/\ MakesChoice(i)
        /\ ret.op = "choice"
        /\ ret.outcome = "returned"
        /\ ret.accepted
        /\ ret.prior = Some(current_scene)
        /\ ret.arg = threads[i].arg
        /\ ret.after = player
        /\ ret.before.step <= 3)
         => LET e == current_scene.effects[Str(threads[i].arg)]
                b == ret.before
            IN /\ player'.health = b.health + 2 * GetHealth(e)
               /\ player'.gold = b.gold + 2 * GetGold(e)
               /\ player'.inventory = b.inventory \o GetItems(e) \o GetItems(e)
               /\ player'.step = b.step + 2
               /\ threads'[i].accepted]_vars

\* C15's case: the second of two calls with choice 1 of the same Scene
\* has returned; each took 50 health and gave 5 gold and a rope.
C15_Witness ==
  /\ ret.op = "choice"
  /\ ret.outcome = "returned"
  /\ ret.accepted
  /\ ret.prior = Some(GoodScene)
  /\ ret.arg = 1
  /\ ret.before = [health |-> 50, gold |-> 5, inventory |-> <<"rope">>, step |-> 1]
  /\ ret.after = [health |-> 0, gold |-> 10, inventory |-> <<"rope", "rope">>, step |-> 2]

\* C16: a make_choice call that accepts the choice applies the effect and
\* adds 1 to step, records exactly two messages, the prior Scene as the
\* assistant's and then the choice with the player's state after the
\* effect as the user's, and only then requests the next Scene: the
\* request is its first and sends the history that ends with the two.
C16_AcceptedChoiceOrder ==
  [][\A i \in ThreadIds :
       (MakesChoice(i) /\ threads'[i].accepted)
         => LET scene == current_scene
                n == threads[i].arg
                e == scene.effects[Str(n)]
                h == conversation_history'
            IN /\ player'.step = player.step + 1
               /\ player'.health = player.health + GetHealth(e)
               /\ player'.gold = player.gold + GetGold(e)
               /\ player'.inventory = player.inventory \o GetItems(e)
               /\ Len(log') = Len(log) + 2
               /\ h[Len(h) - 1] = [role |-> "assistant", text |-> "scene",
                                   scene |-> Some(scene), state |-> None]
               /\ h[Len(h)] = [role |-> "user", text |-> scene.choices[1][n],
                               scene |-> None, state |-> Some(to_dict(player'))]
               /\ threads'[i].pc = "api"
               /\ threads'[i].sent = <<[messages |-> h, player |-> player']>>]_vars

\* C16's case: the choice was accepted with an effect that changed the
\* player, and the request for the next Scene is out.
C16_Witness ==
  \E i \in ThreadIds :
    /\ threads[i].pc = "api"
    /\ threads[i].op = "choice"
    /\ threads[i].accepted
    /\ threads[i].calls = 1
    /\ threads[i].before.health # player.health
    /\ Len(log) >= 6

\* The requests of one generation all sent the messages and saw the player
\* that the first did, which are the history and the player of now p, h.
SameRequests(sent, h, p) ==
  \A k \in 1..Len(sent) :
    /\ sent[k] = sent[1]
    /\ sent[k].messages = h
    /\ sent[k].player = p

\* C17: from the first API call of a generation through its last retry
\* the history and the player do not change: every retry sends the
\* messages the first attempt sent, with nothing appended, and the
\* generation returns with the player as it was at the first attempt.
C17_RetriesSendSameHistory ==
  /\ \A i \in ThreadIds :
       threads[i].pc = "api" =>
         /\ Len(threads[i].sent) = threads[i].calls
         /\ SameRequests(threads[i].sent, conversation_history, player)
  /\ ret.calls > 0 =>
       /\ Len(ret.sent) = ret.calls
       /\ SameRequests(ret.sent, ret.sent[1].messages, ret.after)

\* C17's case: the third retry of a generation started by a choice is
\* out, after three undecodable replies.
C17_Witness ==
  \E i \in ThreadIds :
    /\ threads[i].pc = "api"
    /\ threads[i].op = "choice"
    /\ threads[i].fails = 3
    /\ Len(threads[i].sent) = 4

\* C18: make_choice called with step at MAX_STEPS or above returns a
\* terminal Scene without an API call and leaves health, gold, inventory,
\* step and the history as they were, whatever the index and the prior
\* Scene.
C18_LimitCheckedFirst ==
  [][\A i \in ThreadIds :
       (MakesChoice(i) /\ player.step >= 5)
         => /\ UNCHANGED <<player, conversation_history, log>>
            /\ threads'[i].pc = "none"
            /\ ret'.outcome = "returned"
            /\ IsTerminal(ret'.scene[1])
            /\ ret'.calls = 0
            /\ ret'.sent = <<>>]_vars

\* C18's case: at the limit make_choice was called on a prior Scene whose
\* effects is a number, on which it raises below the limit, and returned.
C18_Witness ==
  /\ ret.op = "choice"
  /\ ret.before.step = 5
  /\ ret.prior = Some(ScalarEffectsScene)
  /\ ret.outcome = "returned"
  /\ ret.calls = 0

\* C19 (as stated): the fallback Scene returned when the retries are used
\* up has the player's health, gold and inventory of that moment in its
\* story.
C19_FallbackEmbedsStats ==
  (ret.outcome = "returned" /\ ret.fails = 4 /\ ~ret.raised)
    => /\ ret.scene[1].story[1].msg = "EMERGENCY STORY CONCLUSION PROTOCOL ACTIVATED!"
       /\ ret.scene[1].story[1].stats =
            Some([health |-> ret.after.health, gold |-> ret.after.gold,
                  inventory |-> ret.after.inventory])

\* C20: once a terminal Scene is on display (the restart button is up),
\* no step but a restart starts or moves a worker, so no make_choice runs,
\* or changes health, gold, inventory, step or the history.
C20_EndedIsFrozen ==
  [][restart_packed =>
       \/ RestartGame
       \/ /\ UNCHANGED <<player, conversation_history, log>>
          /\ threads' = threads
          /\ InFlight = {}]_vars

\* C20's case: a session ended before the step limit, its terminal Scene
\* is on display and its worker has finished.
C20_Witness ==
  /\ restart_packed
  /\ IsTerminal(current_scene)
  /\ pending = 0
  /\ ~loading
  /\ player.step \in 1..4

\* C21 (as stated): the loading flag is true whenever a worker's generation
\* is in flight, under every interleaving of the UI thread and the workers;
\* a worker that finished before a restart does not clear the flag of the
\* worker the restart started.
C21_LoadingWhileInFlight == InFlight # {} => loading

\* The player and the messages of the first request of a session: health
\* 100, no gold, no items, step 0; the system prompt made for that player,
\* then the start message.
FreshRequest ==
  LET fresh == [health |-> 100, gold |-> 0, inventory |-> <<>>, step |-> 0]
  IN [messages |->
        <<[role |-> "system", text |-> "system_prompt", scene |-> None,
           state |-> Some(to_dict(fresh))],
          [role |-> "user", text |-> "Start the adventure!", scene |-> None,
           state |-> None]>>,
      player |-> fresh]

\* C22: the first generation call of a session, the first after a restart
\* as well, is issued with the player in its initial state and with a
\* history of exactly two messages, the system prompt and then the start
\* message; nothing of the session before is in it.
C22_RestartDiscardsSession ==
  /\ \A i \in ThreadIds :
       (threads[i].op = "init" /\ threads[i].pc = "api")
         => /\ threads[i].sent[1] = FreshRequest
            /\ threads[i].calls = 1 =>
                 /\ player = FreshRequest.player
                 /\ conversation_history = FreshRequest.messages
                 /\ log = FreshRequest.messages
  /\ (ret.op = "init" /\ ret.calls > 0) => ret.sent[1] = FreshRequest

\* C22's case: the session before ended on an accepted choice that left
\* items in the inventory and a longer history, the player restarted, and
\* the first request of the new session is out.
C22_Witness ==
  \E i \in ThreadIds :
    /\ threads[i].op = "init"
    /\ threads[i].pc = "api"
    /\ threads[i].calls = 1
    /\ ret.op = "choice"
    /\ ret.accepted
    /\ ret.after.inventory # <<>>
    /\ ret.after.step >= 2
    /\ Len(ret.sent[1].messages) > 2

====
